---- MODULE Spec2Model ----
(***************************************************************************)
(* A model of saclark/markov (src/markov.go): a Markov chain text          *)
(* generator.  Build reads whitespace-delimited words from a reader and    *)
(* fills a map from prefix keys to suffix lists; Generate walks the map    *)
(* with random choices and writes words through a buffered writer; main    *)
(* runs Build and then Generate once and reports.                          *)
(*                                                                         *)
(* Text (the input, words, keys, the writer's buffer, the bytes that       *)
(* reached the output) is modelled by strings.  The texts of the inputs    *)
(* are ASCII, one character per byte, so that the lengths the buffered     *)
(* writer counts in bytes are lengths of strings.                          *)
(***************************************************************************)
EXTENDS Integers, Sequences, FiniteSets, TLC

\* ------------------------------------------------------------------ bounds
\* longest enumerated input text, in bytes
MaxLen == 5
\* largest prefix length (the -prefix flag) explored
MaxN == 2
\* largest word limit (the -words flag) explored; the smallest is -1
MaxWords == 6
\* capacity of the bufio.Writer's buffer, scaled down from bufio's 4096 so
\* that the buffer fills up within MaxWords words
BufSize == 6
\* number of Generate runs on one Chain in the repeated-generation
\* specification
MaxRuns == 2

\* ----------------------------------------------------------------- inputs
Alphabet == {"a", "b", " "}

RECURSIVE Texts(_)
Texts(k) == IF k = 0 THEN {""}
            ELSE LET shorter == Texts(k - 1)
                 IN  shorter \cup {s \o c : s \in {t \in shorter : Len(t) = k - 1},
                                            c \in Alphabet}

\* fixed input texts of the documented scenarios
CatText == "the cat sat the cat ran"
AaabText == "a a a b"
RepText == "a a a"
\* words separated by a form feed, a tab and a newline
SepText == "a\fa\tb\na"
\* a word that, with its space, is longer than the writer's buffer
LongText == "aaaaaaaa a"

Inputs == Texts(MaxLen) \cup {CatText, AaabText, SepText, LongText}

\* ------------------------------------------------------- Prefix (l.19-31)
Min(x, y) == IF x < y THEN x ELSE y
Max(x, y) == IF x > y THEN x ELSE y

\* make(Prefix, prefixLen): prefixLen empty strings
MakePrefix(len) == [j \in 1..len |-> ""]

\* strings.Join(p, " ")
RECURSIVE Join(_, _)
Join(p, sep) == IF Len(p) = 0 THEN ""
                ELSE IF Len(p) = 1 THEN p[1]
                ELSE p[1] \o sep \o Join(Tail(p), sep)

\* a key without the separator
StringNoSep(p) == Join(p, "")

\* Prefix.String
String(p) == Join(p, " ")

\* a Shift in the wrong direction: the newest word is dropped and the new
\* word put in front
ShiftFront(p, word) == [j \in 1..Len(p) |-> IF j = 1 THEN word ELSE p[j - 1]]

\* a Shift without the copy: only the last word is replaced
ShiftNoCopy(p, word) == [j \in 1..Len(p) |-> IF j < Len(p) THEN p[j] ELSE word]

\* Prefix.Shift: copy(p, p[1:]); p[len(p)-1] = word   (len(p) >= 1)
Shift(p, word) == [j \in 1..Len(p) |-> IF j < Len(p) THEN p[j + 1] ELSE word]

\* -------------------------------------------------------- Chain (l.33-47)
EmptyChain == [k \in {} |-> <<>>]

\* a read that falls back to some other list when the key is absent
LookupFallback(ch, key) ==
    IF key \in DOMAIN ch THEN ch[key]
    ELSE IF DOMAIN ch = {} THEN <<>>
    ELSE ch[CHOOSE k \in DOMAIN ch : TRUE]

\* c.chain[key] read: the nil slice when the key is absent
Lookup(ch, key) == IF key \in DOMAIN ch THEN ch[key] ELSE <<>>

\* the chain with an empty entry under key when it has none
EnsureKey(ch, key) == IF key \in DOMAIN ch THEN ch
                      ELSE [k \in DOMAIN ch \cup {key} |->
                              IF k = key THEN <<>> ELSE ch[k]]

\* the word put in front of the list
MapPrepend(ch, key, word) ==
    [k \in DOMAIN ch \cup {key} |-> IF k = key THEN <<word>> \o Lookup(ch, key)
                                              ELSE ch[k]]

\* the list replaced by the word
MapOverwrite(ch, key, word) ==
    [k \in DOMAIN ch \cup {key} |-> IF k = key THEN <<word>> ELSE ch[k]]

\* c.chain[key] = append(c.chain[key], word)
MapAppend(ch, key, word) ==
    [k \in DOMAIN ch \cup {key} |-> IF k = key THEN Append(Lookup(ch, key), word)
                                              ELSE ch[k]]

\* ------------------------------------------------- reading words (l.52-60)
\* fmt's isSpace: U+0009..U+000D (tab, newline, vertical tab, form feed,
\* carriage return), the space, U+0085, U+00A0 and U+1680.  The other
\* entries of fmt's table (U+2000..U+200A, U+2028, U+2029, U+202F, U+205F,
\* U+3000) cannot be written in a string of this module, so that no text
\* here holds them.
IsSpace(c) == c \in {" ", "\t", "\n", "", "\f", "\r", "", " ", " "}

Char(s, j) == SubSeq(s, j, j)

\* the bytes the reader delivers before it reports end-of-stream (fail = -1)
\* or a read error (fail = number of bytes delivered before the error)
Deliverable(s, fail) == IF fail = -1 THEN Len(s) ELSE Min(fail, Len(s))

RECURSIVE SkipSpace(_, _, _)
SkipSpace(s, j, lim) == IF j <= lim /\ IsSpace(Char(s, j))
                        THEN SkipSpace(s, j + 1, lim) ELSE j

RECURSIVE TokenEnd(_, _, _)
TokenEnd(s, j, lim) == IF j <= lim /\ ~IsSpace(Char(s, j))
                       THEN TokenEnd(s, j + 1, lim) ELSE j

\* fmt.Fscan(bufReader, &word) at read position p: skips white space, then
\* reads the bytes up to the next white space or the end of the stream.
\* err is "nil", "EOF" (the stream ended before any word) or "IO" (the
\* reader failed before the word was complete; the word is not stored).
Fscan(s, p, fail) ==
    LET lim == Deliverable(s, fail)
        st  == SkipSpace(s, p, lim)
        en  == TokenEnd(s, st, lim)
    IN  IF st > lim
        THEN [err |-> IF fail = -1 THEN "EOF" ELSE "IO", word |-> "", pos |-> st]
        ELSE IF en > lim /\ fail # -1
        THEN [err |-> "IO", word |-> "", pos |-> en]
        ELSE [err |-> "nil", word |-> SubSeq(s, st, en - 1), pos |-> en]

\* ------------------------------------------------ writing words (l.71-86)
\* fmt.Sprint(nextWord, " "): both operands are strings, no space is added
Sprint(word, sp) == word \o sp

\* One Write call on the output of the bytes d: the sink takes the first m
\* bytes; m < Len(d) is a failed write.
SinkWrite(o, d, m) == [out |-> o \o SubSeq(d, 1, m), failed |-> m < Len(d),
                       rest |-> SubSeq(d, m + 1, Len(d))]

\* bufio.Writer.Flush: the set of outcomes, one per way the sink can answer
FlushOutcomes(b, o, e) ==
    IF e \/ Len(b) = 0
    THEN {[buf |-> b, out |-> o, err |-> e]}
    ELSE {LET r == SinkWrite(o, b, m)
          IN  [buf |-> r.rest, out |-> r.out, err |-> r.failed] : m \in 0..Len(b)}

\* bufio.Writer.WriteString(s) on standard output (an io.StringWriter):
\* while s does not fit, either, with an empty buffer, hand s to the
\* output's WriteString directly, or fill the buffer and flush it; then
\* copy what is left.  The set of outcomes.
RECURSIVE WriteStringOutcomes(_, _, _, _)
WriteStringOutcomes(b, o, e, s) ==
    IF Len(s) > BufSize - Len(b) /\ ~e
    THEN IF Len(b) = 0
         THEN UNION {LET r == SinkWrite(o, s, m)
                     IN  WriteStringOutcomes(b, r.out, r.failed, r.rest)
                       : m \in 0..Len(s)}
         ELSE LET k    == BufSize - Len(b)
                  full == b \o SubSeq(s, 1, k)
                  rest == SubSeq(s, k + 1, Len(s))
              IN  UNION {WriteStringOutcomes(f.buf, f.out, f.err, rest)
                           : f \in FlushOutcomes(full, o, e)}
    ELSE IF e THEN {[buf |-> b, out |-> o, err |-> TRUE]}
    ELSE {[buf |-> b \o s, out |-> o, err |-> FALSE]}

\* ------------------------------------------------------------------ state
VARIABLES
    input,      \* the text on standard input
    failAt,     \* bytes the reader delivers before a read error; -1: none
    N,          \* prefixLen (flag -prefix)
    n,          \* numWords (flag -words)
    pc,         \* main's position
    chain,      \* Chain.chain
    prefix,     \* the local Prefix of the running Build or Generate
    pos,        \* read position of Build in input
    read,       \* the words Build has read so far
    readErr,    \* the err of Build's last Fscan
    gen,        \* state of the Generate run
    i,          \* Generate's loop counter
    emitted,    \* the words Generate has written with success, in order
    picks,      \* the indices rand.Intn returned in this run, in order
    buf,        \* bufio.Writer: buffered bytes
    werr,       \* bufio.Writer: sticky error
    out,        \* the bytes that reached standard output
    ret,        \* Generate's return value: "none", "nil", "err"
    runs,       \* number of Generate runs started
    cmpP,       \* key comparison: the first Prefix
    cmpQ,       \* key comparison: the second Prefix
    keyP,       \* key comparison: String() of the first Prefix
    keyQ        \* key comparison: String() of the second Prefix

vars == <<input, failAt, N, n, pc, chain, prefix, pos, read, readErr, gen, i,
          emitted, picks, buf, werr, out, ret, runs, cmpP, cmpQ, keyP, keyQ>>

buildVars == <<chain, pos, read, readErr>>
\* the variables of the key comparison, which main never touches
keyVars == <<cmpP, cmpQ, keyP, keyQ>>
\* what no step of main changes: the parameters of the run (and keyVars)
paramVars == <<input, failAt, N, n, keyVars>>
genVars == <<gen, i, emitted, picks, buf, werr, ret, runs>>

Terminal == {"Exhausted", "LimitReached", "WriteError"}

\* main up to the first iteration of Build: flags parsed with -prefix in
\* lens, NewChain, Build called
InitFor(lens) ==
    /\ input \in Inputs
    /\ failAt \in {-1} \cup 0..Len(input)
    /\ N \in lens
    /\ n \in -1..MaxWords
    /\ pc = "Build"
    /\ chain = EmptyChain
    /\ prefix = MakePrefix(N)
    /\ pos = 1
    /\ read = <<>>
    /\ readErr = "nil"
    /\ gen = "NotStarted"
    /\ i = 0
    /\ emitted = <<>>
    /\ picks = <<>>
    /\ buf = ""
    /\ werr = FALSE
    /\ out = ""
    /\ ret = "none"
    /\ runs = 0
    /\ cmpP = <<>>
    /\ cmpQ = <<>>
    /\ keyP = ""
    /\ keyQ = ""

\* the runs with a prefix length of one or more
Init == InitFor(1..MaxN)

\* main passes every -prefix value on to NewChain: zero and negative
\* lengths too
InitFlags == InitFor(-1..MaxN)

\* ------------------------------------------------------------------ Build
\* a Build that shifts the Prefix before it computes the key
BuildWordShiftFirst ==
    /\ pc = "Build"
    /\ N >= 1
    /\ LET r == Fscan(input, pos, failAt)
       IN  /\ r.err = "nil"
           /\ chain' = MapAppend(chain, String(Shift(prefix, r.word)), r.word)
           /\ prefix' = Shift(prefix, r.word)
           /\ pos' = r.pos
           /\ read' = Append(read, r.word)
    /\ UNCHANGED <<paramVars, pc, readErr, genVars, out>>

\* one iteration of Build's loop in which Fscan returns a word
BuildWord ==
    /\ pc = "Build"
    /\ N >= 1
    /\ LET r == Fscan(input, pos, failAt)
       IN  /\ r.err = "nil"
           /\ chain' = MapAppend(chain, String(prefix), r.word)
           /\ prefix' = Shift(prefix, r.word)
           /\ pos' = r.pos
           /\ read' = Append(read, r.word)
    /\ UNCHANGED <<paramVars, pc, readErr, genVars, out>>

\* Build panics: make(Prefix, prefixLen) with a negative length (line 53),
\* or, with length 0, Shift's p[1:] on the first word read, after the word
\* has been stored under the key ""
BuildPanic ==
    /\ pc = "Build"
    /\ N <= 0
    /\ LET r == Fscan(input, pos, failAt)
       IN  IF N < 0
           THEN UNCHANGED <<chain, pos, read>>
           ELSE /\ r.err = "nil"
                /\ chain' = MapAppend(chain, String(prefix), r.word)
                /\ pos' = r.pos
                /\ read' = Append(read, r.word)
    /\ pc' = "Panic"
    /\ UNCHANGED <<paramVars, prefix, readErr, genVars, out>>

\* a Build that creates the entry of the key before it reads the word
BuildBreakEnsure ==
    /\ pc = "Build"
    /\ LET r == Fscan(input, pos, failAt)
       IN  /\ r.err # "nil"
           /\ readErr' = r.err
           /\ pos' = r.pos
    /\ chain' = EnsureKey(chain, String(prefix))
    /\ pc' = "Built"
    /\ UNCHANGED <<paramVars, prefix, read, genVars, out>>

\* the iteration in which Fscan returns an error: break, Build returns
BuildBreak ==
    /\ pc = "Build"
    /\ N >= 0
    /\ LET r == Fscan(input, pos, failAt)
       IN  /\ r.err # "nil"
           /\ readErr' = r.err
           /\ pos' = r.pos
    /\ pc' = "Built"
    /\ UNCHANGED <<paramVars, chain, prefix, read, genVars, out>>

\* --------------------------------------------------------------- Generate
\* a loop that runs once too often
LoopCondLE(ii, nn) == ii <= nn

\* a loop that stops one iteration early
LoopCondShort(ii, nn) == ii < nn - 1

\* the loop condition of Generate
LoopCond(ii, nn) == ii < nn

\* a Generate that goes on with the Prefix Build left
GenPrologKeepPrefix ==
    /\ gen' = "Running"
    /\ prefix' = prefix
    /\ i' = 0
    /\ emitted' = <<>>
    /\ picks' = <<>>
    /\ buf' = ""
    /\ werr' = FALSE
    /\ ret' = "none"
    /\ runs' = runs + 1
    /\ UNCHANGED <<paramVars, buildVars>>

\* Generate's prologue: a new buffered writer and a new Prefix
GenProlog ==
    /\ gen' = "Running"
    /\ prefix' = MakePrefix(N)
    /\ i' = 0
    /\ emitted' = <<>>
    /\ picks' = <<>>
    /\ buf' = ""
    /\ werr' = FALSE
    /\ ret' = "none"
    /\ runs' = runs + 1
    /\ UNCHANGED <<paramVars, buildVars>>

\* main calls Generate after Build has returned
GenStart ==
    /\ pc = "Built"
    /\ pc' = "Generate"
    /\ out' = out
    /\ GenProlog

\* a caller that keeps the Chain calls Generate again, with a new writer,
\* after a run has returned
GenAgain ==
    /\ pc = "Generate"
    /\ gen \in Terminal
    /\ runs < MaxRuns
    /\ pc' = pc
    /\ out' = ""
    /\ GenProlog

\* the key computed once, before the loop
GenKeyHoisted == String(MakePrefix(N))

\* the key Generate looks up in this iteration
GenKey == String(prefix)

\* one iteration that finds words: draw an index, write the word, and,
\* unless the write failed (and the error is checked), shift the Prefix
GenStepWith(checkErr) ==
    /\ gen = "Running"
    /\ LoopCond(i, n)
    /\ LET words == Lookup(chain, GenKey)
       IN  /\ Len(words) # 0
           /\ \E idx \in 0..(Len(words) - 1) :
                LET nextWord == words[idx + 1]
                IN  \E w \in WriteStringOutcomes(buf, out, werr, Sprint(nextWord, " ")) :
                      /\ buf' = w.buf
                      /\ out' = w.out
                      /\ werr' = w.err
                      /\ picks' = Append(picks, idx)
                      /\ IF w.err /\ checkErr
                         THEN /\ gen' = "WriteError"
                              /\ ret' = "err"
                              /\ UNCHANGED <<prefix, i, emitted>>
                         ELSE /\ prefix' = Shift(prefix, nextWord)
                              /\ i' = i + 1
                              /\ emitted' = Append(emitted, nextWord)
                              /\ UNCHANGED <<gen, ret>>
    /\ UNCHANGED <<paramVars, pc, buildVars, runs>>

\* if err != nil { return err }: the write error ends the run
GenStepIgnoreErr == GenStepWith(FALSE)
GenStep == GenStepWith(TRUE)

\* Generate returns nil: the deferred Flush runs and its result is dropped
ReturnNil(state) ==
    /\ gen' = state
    /\ ret' = "nil"
    /\ \E f \in FlushOutcomes(buf, out, werr) :
         /\ buf' = f.buf
         /\ out' = f.out
         /\ werr' = f.err
    /\ UNCHANGED <<paramVars, pc, pos, read, readErr, i, emitted, picks, runs>>

\* a lookup that stores the missing key
GenMissInsert ==
    /\ gen = "Running"
    /\ LoopCond(i, n)
    /\ Len(Lookup(chain, GenKey)) = 0
    /\ chain' = EnsureKey(chain, GenKey)
    /\ prefix' = prefix
    /\ ReturnNil("Exhausted")

\* a miss that starts over from the empty Prefix instead of stopping
GenMissRestart ==
    /\ gen = "Running"
    /\ LoopCond(i, n)
    /\ Len(Lookup(chain, GenKey)) = 0
    /\ prefix' = MakePrefix(N)
    /\ i' = i + 1
    /\ UNCHANGED <<paramVars, pc, buildVars, gen, emitted, picks, buf, werr,
                   out, ret, runs>>

\* the iteration that finds no words: break
GenMiss ==
    /\ gen = "Running"
    /\ LoopCond(i, n)
    /\ Len(Lookup(chain, GenKey)) = 0
    /\ UNCHANGED <<chain, prefix>>
    /\ ReturnNil("Exhausted")

\* the loop condition fails
GenLimit ==
    /\ gen = "Running"
    /\ ~LoopCond(i, n)
    /\ UNCHANGED <<chain, prefix>>
    /\ ReturnNil("LimitReached")

\* ------------------------------------------------------------------- main
\* err != nil: log.Fatal(err)
MainFatal ==
    /\ pc = "Generate"
    /\ ret = "err"
    /\ pc' = "Exit1"
    /\ UNCHANGED <<paramVars, buildVars, prefix, genVars, out>>

\* err == nil: fmt.Println() writes the newline to standard output (its
\* result is dropped), main returns
MainPrintln ==
    /\ pc = "Generate"
    /\ ret = "nil"
    /\ pc' = "Exit0"
    /\ \E m \in 0..1 : out' = SinkWrite(out, "\n", m).out
    /\ UNCHANGED <<paramVars, buildVars, prefix, genVars>>

Next ==
    \/ BuildWord
    \/ BuildBreak
    \/ GenStart
    \/ GenStep
    \/ GenMiss
    \/ GenLimit
    \/ MainFatal
    \/ MainPrintln

Spec == Init /\ [][Next]_vars

\* a caller that builds the Chain once and generates from it MaxRuns times
NextRuns ==
    \/ BuildWord
    \/ BuildBreak
    \/ GenStart
    \/ GenStep
    \/ GenMiss
    \/ GenLimit
    \/ GenAgain

SpecRuns == Init /\ [][NextRuns]_vars

\* main with any -prefix value
NextFlags ==
    \/ Next
    \/ BuildPanic

SpecFlags == InitFlags /\ [][NextFlags]_vars

\* main runs on one thread and nothing suspends it: a step that can be
\* taken is taken
\* (runs on input that is read to its end: the shorter texts, the fixed
\* texts and one token repeated three times)
InitFair ==
    /\ Init
    /\ failAt = -1
    /\ input \in Texts(MaxLen - 1) \cup {CatText, AaabText, RepText}

SpecFair == InitFair /\ [][Next]_vars /\ WF_vars(Next)

\* --------------------------------------------------------- key comparison
\* words for the Prefixes of the key comparison: the placeholder, words
\* without a space and, for contrast, strings with a space
KeyWords == {"", "a", "b", "ab", "a b", " "}

\* the Prefixes of length len over KeyWords
PrefixesOf(len) == [1..len -> KeyWords]

\* two Prefixes of one length, their keys not yet computed
InitKeys ==
    /\ N \in 1..MaxN
    /\ cmpP \in PrefixesOf(N)
    /\ cmpQ \in PrefixesOf(N)
    /\ keyP = ""
    /\ keyQ = ""
    /\ pc = "Keys"
    /\ input = ""
    /\ failAt = -1
    /\ n = 0
    /\ chain = EmptyChain
    /\ prefix = MakePrefix(N)
    /\ pos = 1
    /\ read = <<>>
    /\ readErr = "nil"
    /\ gen = "NotStarted"
    /\ i = 0
    /\ emitted = <<>>
    /\ picks = <<>>
    /\ buf = ""
    /\ werr = FALSE
    /\ out = ""
    /\ ret = "none"
    /\ runs = 0

\* key := p.String() for both Prefixes
ComputeKeys ==
    /\ pc = "Keys"
    /\ pc' = "Keyed"
    /\ keyP' = String(cmpP)
    /\ keyQ' = String(cmpQ)
    /\ UNCHANGED <<input, failAt, N, n, cmpP, cmpQ, buildVars, prefix, genVars, out>>

SpecKeys == InitKeys /\ [][ComputeKeys]_vars

\* ----------------------------------------------------------------- claims
\* C1: a run of Generate emits at most max(maxTokens, 0) tokens, in every
\* reachable state, for every Chain, prefix length and word limit (zero and
\* negative limits included) and every sequence of random choices; not even
\* the number of words drawn and handed to the writer exceeds the cap.
C1_AtMostMaxTokens ==
    /\ Len(emitted) <= Max(n, 0)
    /\ Len(picks) <= Max(n, 0)

\* a run stopped by the cap after two or more words, one of them taken from
\* a list with several entries
C1_Witness ==
    /\ gen = "LimitReached"
    /\ n >= 2
    /\ Len(emitted) = n
    /\ \E j \in 1..Len(picks) : picks[j] > 0

\* C2: every token Generate emits is, when it is emitted, an element of the
\* Chain's list stored under the key of the Prefix of that moment (the
\* Prefix before it is shifted by the token).
C2_EmittedFromCollection ==
    [][Len(emitted') > Len(emitted) =>
         \E j \in 1..Len(Lookup(chain, String(prefix))) :
             emitted' = Append(emitted, Lookup(chain, String(prefix))[j])]_vars

\* a second or later word has been emitted, drawn at an index other than 0
C2_Witness ==
    /\ Len(emitted) >= 2
    /\ picks[Len(picks)] > 0
    /\ Len(picks) = Len(emitted)

\* C3: in every state during and after Build (Generate included) every key
\* present in the Chain maps to a non-empty list.
C3_NoEmptyCollection == \A k \in DOMAIN chain : Len(chain[k]) >= 1

\* Build ended on a Chain with two keys or more and Generate ran into a
\* Prefix without an entry
C3_Witness ==
    /\ pc = "Exit0"
    /\ gen = "Exhausted"
    /\ Cardinality(DOMAIN chain) >= 2
    /\ String(prefix) \notin DOMAIN chain

\* the key of the N tokens before position idx of toks, padded at the front
\* with empty strings
RefKey(toks, idx, len) ==
    String([j \in 1..len |-> IF idx - len - 1 + j >= 1
                             THEN toks[idx - len - 1 + j] ELSE ""])

\* the tokens among the first upto of toks that follow key k, in input order
RECURSIVE FollowOns(_, _, _, _)
FollowOns(toks, len, k, upto) ==
    IF upto = 0 THEN <<>>
    ELSE LET before == FollowOns(toks, len, k, upto - 1)
         IN  IF RefKey(toks, upto, len) = k THEN Append(before, toks[upto])
             ELSE before

\* the reference mapping of a token sequence
RefChain(toks, len) ==
    [k \in {RefKey(toks, idx, len) : idx \in 1..Len(toks)} |->
        FollowOns(toks, len, k, Len(toks))]

\* C4: the Chain Build produces equals the reference mapping of the tokens
\* read (it does so after every token): a key is present iff it is the key
\* of the N tokens before some token, and its list holds exactly those
\* tokens in input order, duplicates kept.  With N = 1 the input a a a b
\* gives exactly "" -> [a] and "a" -> [a, a, b].
C4_ChainIsReference ==
    /\ chain = RefChain(read, N)
    /\ (input = AaabText /\ N = 1 /\ failAt = -1 /\ pc # "Build") =>
          /\ read = <<"a", "a", "a", "b">>
          /\ DOMAIN chain = {"", "a"}
          /\ chain[""] = <<"a">>
          /\ chain["a"] = <<"a", "a", "b">>
    /\ (input = CatText /\ failAt = -1 /\ pc # "Build") =>
          read = <<"the", "cat", "sat", "the", "cat", "ran">>

\* Build has returned after three tokens with prefix length 2, one key
\* having two different follow-on tokens
C4_Witness ==
    /\ pc = "Built"
    /\ N = 2
    /\ Len(read) >= 3
    /\ \E k \in DOMAIN chain : Len(chain[k]) >= 2 /\ chain[k][1] # chain[k][2]

\* every index drawn so far in this run is 0: the first candidate was chosen
AllFirst == \A j \in 1..Len(picks) : picks[j] = 0

\* a Generate run with prefix length 2 and a limit of six or more words on
\* the Chain built from the whole of the cat text
CatScenario ==
    /\ input = CatText
    /\ failAt = -1
    /\ N = 2
    /\ n >= 6
    /\ gen # "NotStarted"

CatCycle == <<"the", "cat", "sat">>

\* C5 as stated: with prefix length 2, the Chain of the cat sat the cat ran
\* and the first candidate always chosen, a Generate run with a limit of six
\* or more words that ends without a write error has emitted exactly
\* the, cat, sat, the, cat, ran.
C5_Original ==
    (CatScenario /\ AllFirst /\ gen \in {"Exhausted", "LimitReached"}) =>
        emitted = <<"the", "cat", "sat", "the", "cat", "ran">>

\* C5 amended: in that scenario the emitted words are the, cat, sat repeated
\* (the list of "the cat" is [sat, ran] and its first entry is sat, so ran is
\* never emitted), the run never ends on a lookup miss, and a run that ends
\* without a write error has emitted exactly maxTokens words.
C5_FirstChoiceCycles ==
    (CatScenario /\ AllFirst) =>
        /\ \A j \in 1..Len(emitted) : emitted[j] = CatCycle[((j - 1) % 3) + 1]
        /\ gen # "Exhausted"
        /\ gen = "LimitReached" => Len(emitted) = n

\* the run with limit 6 has ended with the, cat, sat, the, cat, sat
C5_Witness ==
    /\ CatScenario
    /\ AllFirst
    /\ n = 6
    /\ gen = "LimitReached"
    /\ emitted = <<"the", "cat", "sat", "the", "cat", "sat">>

\* C6 as stated: when the reader fails with an error other than
\* end-of-stream during Build, the failure reaches the caller and the run
\* does not go on to Generate (and never exits with status 0).
C6_ReadErrorAborts ==
    readErr = "IO" => (gen = "NotStarted" /\ pc # "Exit0")

\* C7 as stated: when a write of the buffered writer to the output failed
\* during a Generate run, Generate returns a non-nil error and main exits
\* with a non-zero status.
C7_WriteFailureReported ==
    (werr /\ gen \in Terminal) => (ret = "err" /\ pc # "Exit0")

\* C8: a step of a running Generate whose Prefix key is absent from the
\* Chain (or maps to an empty list) ends the run without emitting a token
\* or drawing an index, and Generate returns nil; a run on an empty Chain
\* ends with no token emitted, whatever the word limit and prefix length.
C8_MissStopsWithSuccess ==
    [][/\ (gen = "Running" /\ Len(Lookup(chain, String(prefix))) = 0) =>
            /\ gen' = IF i < n THEN "Exhausted" ELSE "LimitReached"
            /\ ret' = "nil"
            /\ emitted' = emitted
            /\ picks' = picks
            /\ prefix' = prefix
       /\ (chain' = EmptyChain /\ gen' \in Terminal) =>
            (emitted' = <<>> /\ picks' = <<>> /\ ret' = "nil")]_vars

\* a run has ended on a lookup miss after emitting words, below its limit
C8_Witness ==
    /\ gen = "Exhausted"
    /\ ret = "nil"
    /\ Len(emitted) >= 1
    /\ Len(emitted) < n

\* C9: once Build has returned, no step changes the Chain: after any number
\* of Generate runs its keys and lists are what Build left, and the lookup
\* of an absent key does not insert it.
C9_GenerateKeepsChain == [][pc # "Build" => chain' = chain]_vars

\* a second Generate run on a Chain with two keys or more has ended on a
\* lookup miss
C9_Witness ==
    /\ runs >= 2
    /\ gen = "Exhausted"
    /\ Cardinality(DOMAIN chain) >= 2

\* C10: a Generate run starts Running with a Prefix of N empty strings;
\* a step from Running either emits exactly one token, shifts the Prefix by
\* it and stays Running, or moves to Exhausted (lookup miss), LimitReached
\* (the loop condition fails, max(n, 0) iterations done) or WriteError (the
\* write failed) without emitting; in a terminal state no token is emitted,
\* the Prefix is not shifted and the state does not change.
C10_GenerateStateMachine ==
    [][/\ (gen # "Running" /\ gen' = "Running") =>
            (prefix' = MakePrefix(N) /\ emitted' = <<>>)
       /\ gen = "Running" =>
            \/ /\ gen' = "Running"
               /\ ~werr'
               /\ Len(emitted') = Len(emitted) + 1
               /\ SubSeq(emitted', 1, Len(emitted)) = emitted
               /\ prefix' = Shift(prefix, emitted'[Len(emitted')])
            \/ /\ gen' = "Exhausted"
               /\ Len(Lookup(chain, String(prefix))) = 0
               /\ emitted' = emitted /\ prefix' = prefix
            \/ /\ gen' = "LimitReached"
               /\ i = Max(n, 0)
               /\ emitted' = emitted /\ prefix' = prefix
            \/ /\ gen' = "WriteError"
               /\ werr'
               /\ emitted' = emitted /\ prefix' = prefix
       /\ gen \in Terminal =>
            (gen' = gen /\ emitted' = emitted /\ prefix' = prefix /\ i' = i)]_vars

\* a run that emitted a word has ended on a write error and main has
\* acted after it
C10_Witness ==
    /\ gen = "WriteError"
    /\ Len(emitted) >= 1
    /\ pc = "Exit1"

\* Build has read one token, repeated two or more times, with prefix
\* length 1
SingleTokenChain ==
    /\ pc # "Build"
    /\ N = 1
    /\ Len(read) >= 2
    /\ \A j \in 1..Len(read) : read[j] = read[1]

\* C11: every Generate run terminates; on a Chain built with N = 1 from one
\* token repeated K >= 2 times a run without a write error is never stopped
\* by a lookup miss: it ends by the cap, having emitted exactly maxTokens
\* copies of the token (none when maxTokens is negative).
C11_CycleStoppedByCap ==
    /\ [](SingleTokenChain =>
            /\ gen # "Exhausted"
            /\ \A j \in 1..Len(emitted) : emitted[j] = read[1]
            /\ gen = "LimitReached" => Len(emitted) = Max(n, 0))
    /\ <>(gen \in Terminal)
    /\ <>(pc \in {"Exit0", "Exit1"})

\* a run on the Chain of a token read three times has been stopped by the
\* cap after more words than the input has
C11_Witness ==
    /\ SingleTokenChain
    /\ Len(read) = 3
    /\ gen = "LimitReached"
    /\ Len(emitted) = n
    /\ n > Len(read)

\* the word has no space character
NoSpace(word) == \A j \in 1..Len(word) : Char(word, j) # " "

\* every word of the Prefix is free of spaces (it may be the placeholder)
SpaceFree(p) == \A j \in 1..Len(p) : NoSpace(p[j])

\* C12: for two Prefixes of the same length N >= 1 whose words contain no
\* space (the empty placeholder allowed), the keys String() returns are
\* equal if and only if the Prefixes are equal word by word.
C12_KeyInjective ==
    (pc = "Keyed" /\ SpaceFree(cmpP) /\ SpaceFree(cmpQ)) =>
        (keyP = keyQ <=> cmpP = cmpQ)

\* the keys of two different space-free Prefixes of length 2 that hold the
\* same characters have been computed
C12_Witness ==
    /\ pc = "Keyed"
    /\ cmpP = <<"a", "b">>
    /\ cmpQ = <<"ab", "">>
    /\ keyP = "a b"
    /\ keyQ = "ab "

\* the bytes Generate writes for the words: each word followed by a space
RECURSIVE Wire(_)
Wire(toks) == IF Len(toks) = 0 THEN ""
              ELSE Sprint(Head(toks), " ") \o Wire(Tail(toks))

HasNewline(s) == \E j \in 1..Len(s) : Char(s, j) = "\n"

\* C13 as stated: on a run that ends with status 0 and its newline written
\* the bytes that reached the output are the emitted words, each followed by
\* one space, in order, and then the one newline; a newline on the output
\* means every buffered word has been flushed before it; no newline is
\* written when Generate returned an error.
C13_OutputThenNewline ==
    /\ (pc = "Exit0" /\ HasNewline(out)) => out = Wire(emitted) \o "\n"
    /\ HasNewline(out) => (buf = "" /\ ~werr)
    /\ ret = "err" => ~HasNewline(out)

\* when no write to the output failed, the run that ends with status 0 has
\* written the words and then the newline, and a run in which Generate
\* returned an error wrote no newline
OutputWithoutWriteFailure ==
    /\ (pc = "Exit0" /\ ~werr /\ HasNewline(out)) =>
           (out = Wire(emitted) \o "\n" /\ buf = "")
    /\ ret = "err" => ~HasNewline(out)

\* the last min(Len(toks), len) tokens of toks, preceded by empty strings up
\* to length len
Window(toks, len) ==
    [j \in 1..len |-> IF Len(toks) - len + j >= 1 THEN toks[Len(toks) - len + j]
                      ELSE ""]

\* C14: in every state of Build and of Generate the Prefix has length N and
\* holds the last min(k, N) of the k tokens read (Build) or emitted
\* (Generate), in order, preceded by N - min(k, N) empty strings; a step
\* that reads or emits a token drops the oldest element of the Prefix and
\* appends the token.
C14_SlidingWindow ==
    [][/\ Len(prefix') = N'
       /\ pc' \in {"Build", "Built"} => prefix' = Window(read', N')
       /\ gen' # "NotStarted" => prefix' = Window(emitted', N')
       /\ (Len(read') > Len(read) \/ Len(emitted') > Len(emitted)) =>
            /\ SubSeq(prefix', 1, N - 1) = SubSeq(prefix, 2, N)
            /\ prefix'[N] = IF pc = "Build" THEN read'[Len(read')]
                            ELSE emitted'[Len(emitted')]]_vars

\* Generate has emitted more than N = 2 words and the Prefix holds two
\* different words
C14_Witness ==
    /\ gen = "Running"
    /\ N = 2
    /\ Len(emitted) > N
    /\ prefix[1] # prefix[2]

\* the sum of the lengths of the lists of ch under the keys ks
RECURSIVE SlotCount(_, _)
SlotCount(ch, ks) ==
    IF ks = {} THEN 0
    ELSE LET k == CHOOSE x \in ks : TRUE
         IN  Len(ch[k]) + SlotCount(ch, ks \ {k})

\* C15: in every state of Build the lengths of all lists of the Chain add up
\* to the number of tokens read; a step adds one slot to one list and never
\* removes or overwrites a slot (every list stays a prefix of its later
\* self).
C15_OneSlotPerToken ==
    [][/\ SlotCount(chain', DOMAIN chain') = Len(read')
       /\ \A k \in DOMAIN chain :
            /\ k \in DOMAIN chain'
            /\ Len(chain'[k]) >= Len(chain[k])
            /\ SubSeq(chain'[k], 1, Len(chain[k])) = chain[k]
       /\ Len(read') = Len(read) + 1 =>
            \E k \in DOMAIN chain' :
                /\ Len(chain'[k]) = Len(Lookup(chain, k)) + 1
                /\ \A o \in DOMAIN chain' \ {k} :
                     o \in DOMAIN chain /\ chain'[o] = chain[o]]_vars

\* Build has returned after three or more tokens, with two keys or more and
\* a list of two or more tokens
C15_Witness ==
    /\ pc = "Built"
    /\ Len(read) >= 3
    /\ Cardinality(DOMAIN chain) >= 2
    /\ \E k \in DOMAIN chain : Len(chain[k]) >= 2

\* C16 as stated: whatever value the prefix option has, Shift is never
\* applied to a Prefix of length 0 and no Prefix is made with a negative
\* length (Build never panics), and Generate only runs with N >= 1.
C16_PrefixAtLeastOne ==
    /\ pc # "Panic"
    /\ gen # "NotStarted" => N >= 1

\* C17: whatever the random choices, the first min(N, m, maxTokens) words a
\* Generate run emits are the first words t1, t2, ... of the m words Build
\* read: the list under the key of a Prefix that still holds a placeholder
\* has exactly one element, and a run that ends without a write error has
\* emitted at least min(N, m, max(maxTokens, 0)) words.
C17_OpeningReproduced ==
    /\ \A j \in 1..Min(N, Len(read)) :
          Lookup(chain, RefKey(read, j, N)) = <<read[j]>>
    /\ \A j \in 1..Min(Len(emitted), Min(N, Len(read))) : emitted[j] = read[j]
    /\ gen \in {"Exhausted", "LimitReached"} =>
          Len(emitted) >= Min(N, Min(Len(read), Max(n, 0)))

\* with N = 2 a run on a Chain in which the first word also follows a later
\* Prefix has emitted the two opening words and a third word
C17_Witness ==
    /\ N = 2
    /\ Len(read) >= 3
    /\ read[3] = read[1]
    /\ Len(emitted) >= 3
    /\ emitted[1] = read[1]
    /\ emitted[2] = read[2]

\* the len + 1 tokens of toks that end at position idx, padded at the front
\* with empty strings
Transition(toks, idx, len) ==
    [j \in 1..(len + 1) |-> IF idx - len - 1 + j >= 1 THEN toks[idx - len - 1 + j]
                            ELSE ""]

\* C18: every window of N + 1 consecutive tokens of the output (padded at
\* the front with N empty strings) is a window of N + 1 consecutive tokens
\* of the input padded the same way.
C18_OnlyInputTransitions ==
    \A j \in 1..Len(emitted) :
        \E idx \in 1..Len(read) :
            Transition(emitted, j, N) = Transition(read, idx, N)

\* the output differs from the opening of the input: a transition was
\* taken from a later place of the input
C18_Witness ==
    /\ Len(emitted) >= 3
    /\ Len(emitted) <= Len(read)
    /\ \E j \in 1..Len(emitted) : emitted[j] # read[j]

\* C19: when a Generate run has ended on a lookup miss, its Prefix is the
\* last N tokens Build read, padded at the front with empty strings: the
\* run was at the tail of the input.
C19_MissOnlyAtTail ==
    gen = "Exhausted" => prefix = Window(read, N)

\* a run has ended on a lookup miss after emitting fewer words than the
\* input has, by a transition that skipped part of the input
C19_Witness ==
    /\ gen = "Exhausted"
    /\ Len(read) >= 3
    /\ Len(emitted) >= 1
    /\ Len(emitted) < Len(read)
    /\ Len(emitted) < n

TypeOK ==
    /\ pc \in {"Build", "Built", "Generate", "Exit0", "Exit1", "Keys", "Keyed", "Panic"}
    /\ gen \in {"NotStarted", "Running"} \cup Terminal
    /\ Len(prefix) = Max(N, 0)
    /\ Len(buf) <= BufSize
====
